---- MODULE Spec2Model ----
(***************************************************************************)
(* A model of the CPU watchdog of run_cpu_anlayser.py: the CircularBuffer  *)
(* ring store, the monitoring loop CPUMonitor.monitor (one action per      *)
(* outcome of one loop iteration), the on-demand report, and the loading   *)
(* of config.json with the attribution of ps lines to configured names.    *)
(*                                                                         *)
(* Units.  Time is in whole seconds.  A CPU reading is an integer number   *)
(* of tenths of a percent (ps prints one decimal), so 953 is 95.3%.  A     *)
(* value stored in the ring is the IEEE single nearest to the reading,     *)
(* held as an integer number of F32Unit-ths (2^-17): array('f') keeps 24   *)
(* significant bits, so every single in [64, 16384) is a whole number of   *)
(* those.  A percentage statistic (a / n) * 100 is held as the exact       *)
(* fraction <<100 * a, n>>; for n below 50 the double the code computes    *)
(* compares with an integer exactly as the fraction does.                  *)
(***************************************************************************)
EXTENDS Integers, Sequences, FiniteSets, TLC

(***************************************************************************)
(* Bounds of the model.                                                    *)
(***************************************************************************)
\* the clock value of the first iteration (time.time() is never 0)
StartTime == 100
\* no iteration starts after this clock value
MaxTime == 430
\* the extra seconds an iteration may take on top of the sleep
Jitter == 5
\* how many departures from the nominal run one behaviour may contain
MaxDeviations == 2

\* the names the configuration file can list: two of the default names, one
\* that is not a default name and one that differs from a default name in
\* its case only
AllNames == {"java", "Docker", "nginx", "docker"}
\* the readings ps can print, in tenths of a percent
CpuValues == {950, 953, 960}
\* the reading of the nominal run: the highest one
NominalCpu == CHOOSE v \in CpuValues : \A w \in CpuValues : w <= v

\* the capacity of the CircularBuffer that is exercised on its own, how many
\* appends it gets between two clears, and how often it is cleared
RingCapacity == 3
MaxAppends == 5
MaxClears == 1
\* how often update_config.py rewrites the file of the monitor whose
\* configuration and attribution are exercised on their own
MaxEdits == 3
\* the readings appended to it
RingValues == {953, 960}

\* the encoding of Python's None for a timestamp
None == 0
\* the marker of a key that is not in the process_readings dictionary
NoBuffer == [size |-> 0]

(***************************************************************************)
(* array('f'): the conversion of a reading to an IEEE single.              *)
(***************************************************************************)
F32Unit == 131072

RECURSIVE Pow2(_)
Pow2(n) == IF n = 0 THEN 1 ELSE 2 * Pow2(n - 1)

\* the binary exponent e of k/10: 2^e <= k/10 < 2^(e+1), for k/10 >= 64
F32Exp(k) == CHOOSE e \in 6..13 : 10 * Pow2(e) <= k /\ k < 10 * Pow2(e + 1)

\* num/den rounded to the nearest integer, ties to even
RoundHalfEven(num, den) ==
    LET q == num \div den
        r == num % den
    IN  IF 2 * r < den THEN q
        ELSE IF 2 * r > den THEN q + 1
        ELSE IF q % 2 = 0 THEN q ELSE q + 1

\* float(cpu) stored in an array('f'): the single nearest to k/10, in
\* F32Unit-ths.  The spacing of singles in [2^e, 2^(e+1)) is 2^(e-23),
\* that is 2^(e-6) F32Unit-ths.
Float32(k) ==
    IF k = 0 THEN 0
    ELSE LET step == Pow2(F32Exp(k) - 6)
         IN  step * RoundHalfEven(k * F32Unit, 10 * step)

(***************************************************************************)
(* CircularBuffer                                                          *)
(***************************************************************************)
CircularBuffer(maxsize) ==
    [size       |-> maxsize,
     buffer     |-> [i \in 1..maxsize |-> 0],
     timestamps |-> [i \in 1..maxsize |-> None],
     pids       |-> [i \in 1..maxsize |-> 0],
     pos        |-> 0,
     count      |-> 0]

append(b, timestamp, cpu, pid) ==
    [b EXCEPT !.buffer[b.pos + 1]     = Float32(cpu),
              !.timestamps[b.pos + 1] = timestamp,
              !.pids[b.pos + 1]       = pid,
              !.pos                   = (b.pos + 1) % b.size,
              !.count                 = IF b.count < b.size THEN b.count + 1
                                        ELSE b.count]

get_values(b) ==
    IF b.count = 0 THEN << >>
    ELSE IF b.count < b.size THEN SubSeq(b.buffer, 1, b.count)
    ELSE SubSeq(b.buffer, b.pos + 1, b.size) \o SubSeq(b.buffer, 1, b.pos)

\* the loop of get_recent_values from its i-th step on: newest first, it
\* stops at the first entry older than the cutoff
RECURSIVE RecentFrom(_, _, _)
RecentFrom(b, cutoff_time, i) ==
    IF i >= b.count THEN << >>
    ELSE LET idx == (b.pos - 1 - i) % b.size
         IN  IF b.timestamps[idx + 1] # None /\ b.timestamps[idx + 1] >= cutoff_time
             THEN <<b.buffer[idx + 1]>> \o RecentFrom(b, cutoff_time, i + 1)
             ELSE << >>

get_recent_values(b, window_seconds, current_time) ==
    IF b.count = 0 THEN << >>
    ELSE RecentFrom(b, current_time - window_seconds, 0)

\* mutant: clear() rewinds the position and keeps the count
clear_KeepsCount(b) == [b EXCEPT !.pos = 0]

clear(b) == [b EXCEPT !.count = 0, !.pos = 0]

BufLen(b) == b.count

\* the timestamps of the entries a buffer holds, oldest first
HeldStamps(b) ==
    IF b.count = 0 THEN << >>
    ELSE IF b.count < b.size THEN SubSeq(b.timestamps, 1, b.count)
    ELSE SubSeq(b.timestamps, b.pos + 1, b.size) \o SubSeq(b.timestamps, 1, b.pos)

(***************************************************************************)
(* The state of a CPUMonitor, of its loop and of what the loop wrote.      *)
(***************************************************************************)
VARIABLES
    config_file,          \* the content of config.json
    config_mtime,         \* os.path.getmtime of config.json
    config_last_modified, \* self.config_last_modified
    last_config_check,    \* last_config_check of monitor()
    process_names,        \* self.process_names, a tuple of names
    cpu_threshold,        \* self.cpu_threshold, in tenths of a percent
    check_interval,       \* self.check_interval, seconds
    monitoring_window,    \* self.monitoring_window, seconds
    percentage,           \* self.percentage
    max_readings,         \* self.max_readings
    process_readings,     \* self.process_readings: name -> CircularBuffer
    process_window_start, \* self.process_window_start: name -> timestamp
    now,                  \* the clock: what time.time() returns next
    running,              \* the while loop of monitor() has not been left
    json_files,           \* the cpu_data_*.json records written, in order
    last,                 \* what the last iteration of the loop did
    report,               \* what the run of generate_full_report_now did
    used,                 \* name -> timestamps of the samples an evaluation used
    alerts,               \* name -> alerts raised since the name's last reset
    decided,              \* name -> when its window was last evaluated
    devs,                 \* departures from the nominal run so far
    ring,                 \* a CircularBuffer exercised on its own
    ring_log,             \* the appends to ring since it was made or cleared
    ring_time,            \* the timestamp of the last append to ring
    ring_clears,          \* how often ring has been cleared
    name_cache,           \* self._process_name_cache: command -> name
    attributed            \* the last line of ps output that was attributed:
                          \* by which census, under which names, to whom

file_vars == <<config_file, config_mtime>>
config_vars == <<config_last_modified, process_names, cpu_threshold,
                 check_interval, monitoring_window, percentage, max_readings>>
vars == <<config_file, config_mtime, config_last_modified, last_config_check,
          process_names, cpu_threshold, check_interval, monitoring_window,
          percentage, max_readings, process_readings, process_window_start,
          now, running, json_files, last, report, used, alerts, decided, devs,
          ring, ring_log, ring_time, ring_clears, name_cache, attributed>>
ring_vars == <<ring, ring_log, ring_time, ring_clears>>
monitor_vars == <<config_file, config_mtime, config_last_modified,
                  last_config_check, process_names, cpu_threshold,
                  check_interval, monitoring_window, percentage, max_readings,
                  process_readings, process_window_start, now, running,
                  json_files, last, report, used, alerts, decided, devs,
                  name_cache, attributed>>

\* the minimum number of readings line 607 asks for
MinSamples == 10
\* config_interval of monitor(), line 539
ConfigInterval == 300

\* the check_interval and the monitoring_window of the configuration file
IntervalSeconds == 30
WindowSeconds == 300
\* the monitoring_window an edit of the file sets
EditedWindowSeconds == 320
\* a monitoring_window of several check_intervals
ShortWindowSeconds == 120

InSeq(x, s) == \E i \in DOMAIN s : s[i] = x
Range(s) == {s[i] : i \in DOMAIN s}

(***************************************************************************)
(* load_config and reload_config                                           *)
(***************************************************************************)
\* str.lower() on the names of the model
Lower(name) ==
    CASE name = "Docker" -> "docker"
      [] OTHER -> name

\* add_process of update_config.py, lines 67-76
add_process(names, name) ==
    IF InSeq(name, names) THEN names ELSE Append(names, name)

\* default_config of load_config, lines 93-102, with the first two of its
\* seven process names
default_config ==
    [process_names |-> <<"java", "Docker">>, cpu_threshold |-> 950,
     check_interval |-> 10, monitoring_window |-> 300, percentage |-> 85]

\* the configuration files the monitor may be started with: exists tells
\* whether there is a file at all, json whether it parses, bad_threshold
\* whether "cpu_threshold" holds a string that is not a number
PresentFiles ==
    {[exists |-> TRUE, json |-> TRUE, bad_threshold |-> FALSE,
      process_names |-> <<"java", "Docker">>, cpu_threshold |-> c[1],
      check_interval |-> IntervalSeconds, monitoring_window |-> WindowSeconds,
      percentage |-> c[2]] : c \in {<<950, 0>>, <<953, 100>>}}

\* no config.json in the working directory
MissingFile ==
    [exists |-> FALSE, json |-> FALSE, bad_threshold |-> FALSE,
     process_names |-> << >>, cpu_threshold |-> 0, check_interval |-> 0,
     monitoring_window |-> 0, percentage |-> 0]

\* a file whose window is four intervals long, with the threshold and the
\* percentage of the default configuration
ShortFile ==
    [exists |-> TRUE, json |-> TRUE, bad_threshold |-> FALSE,
     process_names |-> <<"java", "Docker">>,
     cpu_threshold |-> default_config.cpu_threshold,
     check_interval |-> IntervalSeconds,
     monitoring_window |-> ShortWindowSeconds,
     percentage |-> default_config.percentage]

StartFiles == PresentFiles \cup {MissingFile, ShortFile}

\* a configuration file that lists the name that is not a default name
ListingFiles ==
    {[exists |-> TRUE, json |-> TRUE, bad_threshold |-> FALSE,
      process_names |-> <<"nginx">>, cpu_threshold |-> 950,
      check_interval |-> IntervalSeconds, monitoring_window |-> WindowSeconds,
      percentage |-> 0]}

\* remove_process of update_config.py, lines 78-87
remove_process(names, name) == SelectSeq(names, LAMBDA n : n # name)

\* what an edit can turn the file into: another window, text that does not
\* parse, a threshold that is not a number, a zero interval, a negative
\* interval, or the list without one of the names that are not default names
EditedFiles(file) ==
    {[file EXCEPT !.monitoring_window = EditedWindowSeconds],
     [file EXCEPT !.json = FALSE],
     [file EXCEPT !.bad_threshold = TRUE],
     [file EXCEPT !.check_interval = 0],
     [file EXCEPT !.check_interval = 0 - IntervalSeconds]}
    \cup {[file EXCEPT !.process_names = remove_process(@, n)] :
             n \in Range(file.process_names) \ Range(default_config.process_names)}

\* mutant: a file that lists names is taken as it is
MergedNames_FileOnly(names) ==
    IF names = << >> THEN default_config.process_names ELSE names

\* lines 109-125: the names of the file, then the default names that do not
\* occur among them whatever the case
MergedNames(names) ==
    IF names = << >> THEN default_config.process_names
    ELSE names \o SelectSeq(default_config.process_names,
                    LAMBDA d : \A i \in DOMAIN names : Lower(names[i]) # Lower(d))

\* load_config, lines 104-136: the dictionary it returns
load_config(file) ==
    IF ~file.exists \/ ~file.json
    THEN [default_config EXCEPT !.process_names = default_config.process_names]
    ELSE [process_names     |-> MergedNames(file.process_names),
          cpu_threshold     |-> file.cpu_threshold,
          check_interval    |-> file.check_interval,
          monitoring_window |-> file.monitoring_window,
          percentage        |-> file.percentage]

\* the tunables of a monitor as one record
Tunables ==
    [process_names |-> process_names, cpu_threshold |-> cpu_threshold,
     check_interval |-> check_interval, monitoring_window |-> monitoring_window,
     percentage |-> percentage, max_readings |-> max_readings]

\* the tunables of a monitor whose reload_config has assigned nothing yet
Unset ==
    [process_names |-> << >>, cpu_threshold |-> 0, check_interval |-> 0,
     monitoring_window |-> 0, percentage |-> 0, max_readings |-> 0]

\* reload_config line 182; // rounds towards minus infinity
MaxReadings(window, interval) ==
    IF interval > 0 THEN (window \div interval) + 5
    ELSE 5 - ((window + (0 - interval) - 1) \div (0 - interval))

\* reload_config, lines 163-191: what it returns ("raise" when float() or
\* the division raises), the tunables and config_last_modified it leaves;
\* os.path.getmtime of a file that does not exist raises the OSError that
\* line 189 catches
reload_config(cfg, file, mtime, last_modified) ==
    IF ~file.exists \/ ~(mtime > last_modified)
    THEN [returns |-> "False", cfg |-> cfg, last_modified |-> last_modified]
    ELSE LET config == load_config(file)
             named  == [cfg EXCEPT !.process_names = config.process_names]
             tuned  == [named EXCEPT !.cpu_threshold = config.cpu_threshold,
                                     !.check_interval = config.check_interval,
                                     !.monitoring_window = config.monitoring_window,
                                     !.percentage = config.percentage]
         IN  IF file.json /\ file.bad_threshold
             THEN [returns |-> "raise", cfg |-> named, last_modified |-> mtime]
             ELSE IF config.check_interval = 0
             THEN [returns |-> "raise", cfg |-> tuned, last_modified |-> mtime]
             ELSE [returns |-> "True",
                   cfg |-> [tuned EXCEPT !.max_readings =
                               MaxReadings(config.monitoring_window, config.check_interval)],
                   last_modified |-> mtime]

\* mutant: every configured name gets a new buffer
initialize_buffers_Fresh(cfg, readings) ==
    [n \in AllNames |->
        IF InSeq(n, cfg.process_names) THEN CircularBuffer(cfg.max_readings)
        ELSE readings[n]]

\* mutant: the buffers of the names that are not configured are dropped
initialize_buffers_Purge(cfg, readings) ==
    [n \in AllNames |->
        IF ~InSeq(n, cfg.process_names) THEN NoBuffer
        ELSE IF readings[n] = NoBuffer THEN CircularBuffer(cfg.max_readings)
        ELSE readings[n]]

\* _initialize_buffers, lines 193-198
initialize_buffers(cfg, readings) ==
    [n \in AllNames |->
        IF InSeq(n, cfg.process_names) /\ readings[n] = NoBuffer
        THEN CircularBuffer(cfg.max_readings)
        ELSE readings[n]]

(***************************************************************************)
(* The attribution of a line of ps output to a configured name.            *)
(***************************************************************************)
\* the commands ps can print
Commands == {"Docker-Java-Agent", "nginx: worker process", "launchd"}

\* the names of the model that occur in command.lower()
WordsOf(command) ==
    CASE command = "Docker-Java-Agent"     -> {"docker", "java"}
      [] command = "nginx: worker process" -> {"nginx"}
      [] OTHER                             -> {}

\* lowered in command.lower()
Substring(lowered, command) == lowered \in WordsOf(command)

\* Python's None for a name, and a command that is no key of the cache
NoName == ""
NotCached == "?"
EmptyCache == [c \in Commands |-> NotCached]
NotAttributed ==
    [path |-> "none", command |-> "", names |-> << >>, name |-> NoName]

\* the first index of a sequence of lowered names that holds one occurring
\* in the command: where the for loops of lines 207 and 256 stop
FirstIn(lowered, command) ==
    CHOOSE i \in DOMAIN lowered :
       /\ Substring(lowered[i], command)
       /\ \A j \in 1..(i - 1) : ~Substring(lowered[j], command)

\* lines 233 and 253-261: matched_process of the primary census
PrimaryMatch(names, command) ==
    LET monitored_lower == [i \in DOMAIN names |-> Lower(names[i])]
    IN  IF \E i \in DOMAIN names : Substring(monitored_lower[i], command)
        THEN LET proc_name == monitored_lower[FirstIn(monitored_lower, command)]
             IN  names[CHOOSE i \in DOMAIN names :
                          /\ Lower(names[i]) = proc_name
                          /\ \A j \in 1..(i - 1) : Lower(names[j]) # proc_name]
        ELSE NoName

\* _match_process_name, lines 200-213: what it returns and the cache it
\* leaves
match_process_name(cache, names, command) ==
    IF cache[command] # NotCached
    THEN [name |-> cache[command], cache |-> cache]
    ELSE LET lowered == [i \in DOMAIN names |-> Lower(names[i])]
             found   == IF \E i \in DOMAIN names : Substring(lowered[i], command)
                        THEN names[FirstIn(lowered, command)]
                        ELSE NoName
         IN  [name |-> found, cache |-> [cache EXCEPT ![command] = found]]

\* lines 552-557: the reload check at the head of an iteration
ReloadCheck ==
    IF now - last_config_check >= ConfigInterval
    THEN LET r == reload_config(Tunables, config_file, config_mtime, config_last_modified)
         IN  [raised        |-> r.returns = "raise",
              reloaded      |-> r.returns = "True",
              cfg           |-> r.cfg,
              last_modified |-> r.last_modified,
              last_check    |-> IF r.returns = "raise" THEN last_config_check ELSE now,
              readings      |-> IF r.returns = "True"
                                THEN initialize_buffers(r.cfg, process_readings)
                                ELSE process_readings]
    ELSE [raised |-> FALSE, reloaded |-> FALSE, cfg |-> Tunables,
          last_modified |-> config_last_modified,
          last_check |-> last_config_check, readings |-> process_readings]

\* the assignments of the reload check
Configure(check) ==
    /\ config_last_modified' = check.last_modified
    /\ last_config_check' = check.last_check
    /\ process_names' = check.cfg.process_names
    /\ cpu_threshold' = check.cfg.cpu_threshold
    /\ check_interval' = check.cfg.check_interval
    /\ monitoring_window' = check.cfg.monitoring_window
    /\ percentage' = check.cfg.percentage
    /\ max_readings' = check.cfg.max_readings
    /\ name_cache' = IF check.reloaded THEN EmptyCache ELSE name_cache

(***************************************************************************)
(* The census get_process_cpu_usage returns: name -> list of instances;    *)
(* the empty list stands for a name that is not a key of the dictionary.   *)
(***************************************************************************)
Nominal == <<[pid |-> 1, cpu |-> NominalCpu]>>
\* two instances of a name, the second one the busiest
TwoInstances ==
    {<<[pid |-> 1, cpu |-> 953], [pid |-> 2, cpu |-> NominalCpu]>>}

\* the instance lists the census may hold for a name: any reading for
\* "java", one or two instances for "nginx", the nominal list for "Docker"
InstanceLists(n) ==
    IF n = "java" THEN {<<[pid |-> 1, cpu |-> v]>> : v \in CpuValues}
    ELSE IF n = "nginx" THEN {Nominal} \cup TwoInstances
    ELSE {Nominal}

EmptyCensus == [n \in AllNames |-> << >>]

\* the censuses over the names of S of a monitor of these names: only they
\* are matched
RECURSIVE CensusOver(_, _)
CensusOver(S, names) ==
    IF S = {} THEN {<< >>}
    ELSE LET n == CHOOSE m \in S : TRUE
         IN  {(n :> l) @@ c :
                 l \in (IF InSeq(n, names) THEN InstanceLists(n) ELSE {}) \cup {<< >>},
                 c \in CensusOver(S \ {n}, names)}

Census(names) == CensusOver(AllNames, names)

\* mutant: the first instance stands for the name
MaxInstance_First(instances) == instances[1]

\* max(instances, key=lambda x: x['cpu']): the first instance of maximal cpu
MaxInstance(instances) ==
    instances[CHOOSE i \in DOMAIN instances :
                /\ \A j \in DOMAIN instances : instances[j].cpu <= instances[i].cpu
                /\ \A j \in 1..(i - 1) : instances[j].cpu < instances[i].cpu]

(***************************************************************************)
(* One iteration of the while loop of monitor(), lines 566-681.            *)
(***************************************************************************)
\* mutant: the buffer of a name that is not in the census is emptied
Appended_DropsAbsent(buffer, instances, timestamp, cfg) ==
    IF instances = << >>
    THEN IF buffer = NoBuffer THEN buffer ELSE clear(buffer)
    ELSE LET b == IF buffer = NoBuffer THEN CircularBuffer(cfg.max_readings)
                  ELSE buffer
             m == MaxInstance(instances)
         IN  append(b, timestamp, m.cpu, m.pid)

\* lines 567-577: the buffer of a name after the append
Appended(buffer, instances, timestamp, cfg) ==
    IF instances = << >> THEN buffer
    ELSE LET b == IF buffer = NoBuffer THEN CircularBuffer(cfg.max_readings)
                  ELSE buffer
             m == MaxInstance(instances)
         IN  append(b, timestamp, m.cpu, m.pid)

\* mutant: the window starts anew with every sample
Started_Slides(buffer, window_start, instances, timestamp) ==
    IF instances = << >> THEN window_start ELSE timestamp

\* mutant: a name first seen gets the window start of the names seen before
Started_AtStart(buffer, window_start, instances, timestamp) ==
    IF instances = << >> THEN window_start
    ELSE IF buffer = NoBuffer \/ window_start = None THEN StartTime
    ELSE window_start

\* lines 568-570 and 579-581: the window start of a name after the append
Started(buffer, window_start, instances, timestamp) ==
    IF instances = << >> THEN window_start
    ELSE IF buffer = NoBuffer THEN timestamp
    ELSE IF window_start = None THEN timestamp
    ELSE window_start

\* mutant: the window is taken as complete one check_interval early
IsComplete_Early(buffer, window_start, timestamp, cfg) ==
    /\ buffer # NoBuffer
    /\ window_start # None
    /\ timestamp - window_start >= cfg.monitoring_window - cfg.check_interval

\* mutant: a window also has to hold MinSamples samples to be complete
IsComplete_NeedsSamples(buffer, window_start, timestamp, cfg) ==
    /\ buffer # NoBuffer
    /\ window_start # None
    /\ timestamp - window_start >= cfg.monitoring_window
    /\ BufLen(buffer) >= MinSamples

\* lines 588-590: the test that puts a name into completed_processes
IsComplete(buffer, window_start, timestamp, cfg) ==
    /\ buffer # NoBuffer
    /\ window_start # None
    /\ timestamp - window_start >= cfg.monitoring_window

\* line 605: the values an evaluation looks at
Values(buffer, timestamp, cfg) ==
    get_recent_values(buffer, cfg.monitoring_window, timestamp)

\* line 609: val > self.cpu_threshold, val a single and the threshold a double
Above(val, threshold) == 10 * val > threshold * F32Unit

\* lines 609-610: (len(above_threshold) / len(values)) * 100 as a fraction
PercentageAbove(values, threshold) ==
    <<100 * Cardinality({i \in DOMAIN values : Above(values[i], threshold)}),
      Len(values)>>

\* mutant: the comparison is strict
Reaches_Strict(pct, required) == pct[1] > required * pct[2]

\* line 617: percentage_above >= self.percentage
Reaches(pct, required) == pct[1] >= required * pct[2]

\* lines 607-620: process_percentiles[process_name] of a completed process
Percentile(values, cfg) ==
    IF Len(values) >= MinSamples
    THEN PercentageAbove(values, cfg.cpu_threshold)
    ELSE <<0, 1>>

\* mutant: the test of the percentage is not under the test of the count
Triggers_NoMinimum(values, cfg) ==
    Reaches(IF Len(values) >= MinSamples
            THEN PercentageAbove(values, cfg.cpu_threshold) ELSE <<0, 1>>,
            cfg.percentage)

\* lines 607-618: whether a completed process goes into triggering_processes
Triggers(values, cfg) ==
    /\ Len(values) >= MinSamples
    /\ Reaches(PercentageAbove(values, cfg.cpu_threshold), cfg.percentage)

\* round(v, 1) of save_cpu_data_minimal, in tenths
Round1(pct) == RoundHalfEven(10 * pct[1], pct[2])

\* the timestamps of the newest k entries of a buffer
NewestStamps(buffer, k) ==
    LET held == HeldStamps(buffer)
    IN  {held[i] : i \in (Len(held) - k + 1)..Len(held)}

\* lines 566-621 for the census of one iteration: the buffers and window
\* starts after the appends, completed_processes, the values evaluated,
\* process_percentiles (<<0, 0>> for no entry) and triggering_processes
Iteration(cfg, buffers, processes, timestamp) ==
    LET readings  == [n \in AllNames |->
                        Appended(buffers[n], processes[n], timestamp, cfg)]
        starts    == [n \in AllNames |->
                        Started(buffers[n], process_window_start[n],
                                processes[n], timestamp)]
        completed == SelectSeq(cfg.process_names,
                        LAMBDA n : IsComplete(readings[n], starts[n], timestamp, cfg))
        values    == [n \in AllNames |->
                        IF InSeq(n, completed) THEN Values(readings[n], timestamp, cfg)
                        ELSE << >>]
    IN  [readings    |-> readings,
         starts      |-> starts,
         completed   |-> completed,
         values      |-> values,
         percentiles |-> [n \in AllNames |->
                            IF InSeq(n, completed) THEN Percentile(values[n], cfg)
                            ELSE <<0, 0>>],
         triggering  |-> SelectSeq(completed, LAMBDA n : Triggers(values[n], cfg)),
         stamps      |-> [n \in AllNames |->
                            IF InSeq(n, completed)
                            THEN NewestStamps(readings[n], Len(values[n]))
                            ELSE {}]]

(***************************************************************************)
(* What an iteration leaves behind.                                        *)
(***************************************************************************)
\* the data dictionary of save_cpu_data_minimal, lines 373-381
JsonRecord(cfg, processes, it, timestamp) ==
    [ts        |-> timestamp,
     alert     |-> it.triggering,
     medians   |-> [n \in Range(it.completed) |-> Round1(it.percentiles[n])],
     window    |-> cfg.monitoring_window,
     threshold |-> cfg.cpu_threshold,
     processes |-> [n \in {m \in AllNames : processes[m] # << >>} |->
                       Len(processes[n])],
     top_info  |-> "Top CPU Processes"]

\* kind: "start" before the first iteration, "idle" for one that found no
\* process, "run" for one that ran to its end, "error" for one that raised,
\* "stop" for one a KeyboardInterrupt ended, "crash" for one whose exception
\* left monitor().  source: "ok" when ps answered,
\* "failed" when both ps calls failed and the census is the empty
\* dictionary of line 311, "raised" when subprocess.run raised another
\* exception.  reloaded: reload_config returned True in the iteration
NoTick ==
    [kind |-> "start", source |-> "ok", reloaded |-> FALSE,
     timestamp |-> None, processes |-> EmptyCensus,
     completed |-> << >>, values |-> [n \in AllNames |-> << >>],
     percentiles |-> [n \in AllNames |-> <<0, 0>>], triggering |-> << >>,
     stamps |-> [n \in AllNames |-> {}], held |-> [n \in AllNames |-> {}],
     written |-> {}, reset |-> {}, reused |-> [n \in AllNames |-> {}],
     alert_no |-> [n \in AllNames |-> 0],
     window_start |-> [n \in AllNames |-> None], evaluated |-> FALSE]

\* the record of an iteration that got to the evaluation
Observed(kind, processes, it, timestamp, written, reset) ==
    [kind         |-> kind,
     source       |-> "ok",
     reloaded     |-> FALSE,
     timestamp    |-> timestamp,
     processes    |-> processes,
     completed    |-> it.completed,
     values       |-> it.values,
     percentiles  |-> it.percentiles,
     triggering   |-> it.triggering,
     stamps       |-> it.stamps,
     held         |-> [n \in AllNames |->
                         IF it.readings[n] = NoBuffer THEN {}
                         ELSE Range(HeldStamps(it.readings[n]))],
     written      |-> written,
     reset        |-> reset,
     reused       |-> [n \in AllNames |-> it.stamps[n] \cap used[n]],
     alert_no     |-> [n \in AllNames |->
                         IF InSeq(n, it.triggering) THEN alerts[n] + 1 ELSE 0],
     window_start |-> it.starts,
     evaluated    |-> TRUE]

(***************************************************************************)
(* The environment: how long an iteration takes and what may depart from   *)
(* the nominal run (every configured name observed once at NominalCpu, no  *)
(* delay, no failure, no edit of the file, no report).                     *)
(***************************************************************************)
Delays == {0, Jitter}

CensusCost(processes, names) ==
    IF processes = EmptyCensus THEN 1
    ELSE Cardinality({n \in Range(names) : processes[n] # Nominal})

\* a slow iteration counts as two departures
DelayCost(delay) == IF delay > 0 THEN 2 ELSE 0

Cost(processes, names, delay, failed) ==
    CensusCost(processes, names) + DelayCost(delay)
                                 + (IF failed THEN 1 ELSE 0)

\* mutant: the sleep is cut short
Sleep_Short(interval, delay) ==
    /\ interval + delay > 0
    /\ now' = now + 1 + delay

\* time.sleep(self.check_interval), and the time the iteration itself took;
\* the clock advances in every iteration
Sleep(interval, delay) ==
    /\ interval + delay > 0
    /\ now' = now + interval + delay

IdleCost(delay) == Cost(EmptyCensus, << >>, delay, FALSE)
\* a reload that raises is charged to the edit that caused it
ReloadCost(delay) == DelayCost(delay)

CanTick == running /\ now <= MaxTime

\* somebody rewrites config.json
EditConfig(file) ==
    /\ running
    /\ devs < MaxDeviations
    /\ devs' = devs + 1
    /\ config_file' = file
    /\ config_mtime' = config_mtime + 1
    /\ UNCHANGED <<ring_vars, attributed, name_cache, config_vars,
                   last_config_check, process_readings,
                   process_window_start, now, running, json_files, last,
                   report, used, alerts, decided>>

(***************************************************************************)
(* generate_full_report_now: the on-demand report of a process of its own. *)
(***************************************************************************)
\* the instance lists the census of a report may hold
ReportLists ==
    {<<[pid |-> 1, cpu |-> v]>> : v \in CpuValues} \cup
    {<<[pid |-> 1, cpu |-> v], [pid |-> 2, cpu |-> w]>> :
        v \in {NominalCpu}, w \in CpuValues}

\* the census of a report: "java" with one of these lists or absent, the
\* other names absent
ReportCensus(names) ==
    {c \in [AllNames -> ReportLists \cup {<< >>}] :
        /\ \A n \in AllNames \ {"java"} : c[n] = << >>
        /\ \A n \in AllNames : c[n] # << >> => InSeq(n, names)}

\* sorted(data) for a list of one or two readings
Sorted(data) ==
    IF Len(data) = 2 /\ data[1] > data[2] THEN <<data[2], data[1]>> ELSE data

\* statistics.quantiles(data, n=100)[94], method 'exclusive', of two or more
\* readings, times 100: the interpolation between two neighbours
Quantile95(data) ==
    LET sorted == Sorted(data)
        ld     == Len(sorted)
        m      == ld + 1
        j0     == (95 * m) \div 100
        j      == IF j0 < 1 THEN 1 ELSE IF j0 > ld - 1 THEN ld - 1 ELSE j0
        delta  == 95 * m - j * 100
    IN  sorted[j] * (100 - delta) + sorted[j + 1] * delta

\* line 733: median >= monitor.cpu_threshold, the statistic times 100
ReportReaches(median100, threshold) == median100 >= 100 * threshold

NoReport ==
    [kind |-> "none", processes |-> EmptyCensus, threshold |-> 0,
     medians |-> [n \in AllNames |-> 0], triggering |-> << >>]

\* lines 720-733: process_medians (times 100) and triggering_processes
ReportOf(cfg, processes) ==
    LET medians == [n \in AllNames |->
                      IF ~InSeq(n, cfg.process_names) \/ processes[n] = << >> THEN 0
                      ELSE IF Len(processes[n]) = 1 THEN 100 * processes[n][1].cpu
                      ELSE Quantile95([i \in DOMAIN processes[n] |-> processes[n][i].cpu])]
    IN  [kind       |-> "done",
         processes  |-> processes,
         threshold  |-> cfg.cpu_threshold,
         medians    |-> medians,
         triggering |-> SelectSeq(cfg.process_names,
                           LAMBDA n : ReportReaches(medians[n], cfg.cpu_threshold))]

\* CPUMonitor.__init__, lines 145-161: reload_config on a fresh object
Constructed(file, mtime) == reload_config(Unset, file, mtime, 0)

\* a run of generate_full_report_now; with a single instance of a name
\* statistics.quantiles raises before Python 3.13 and returns the reading
\* from 3.13 on.  The report is a process of its own that shares no state
\* with the loop, so its one run is placed before the first iteration of a
\* loop that then runs nominally.
GenerateFullReportNow(raises) ==
    /\ report.kind = "none"
    /\ last.kind = "start"
    /\ devs = 0
    /\ devs' = MaxDeviations
    /\ \E monitor \in {Constructed(config_file, config_mtime)} :
          IF monitor.returns # "True"
          THEN report' = [NoReport EXCEPT !.kind = "error"]
          ELSE \E processes \in ReportCensus(monitor.cfg.process_names) :
                  /\ raises => \E n \in AllNames : Len(processes[n]) = 1
                  /\ report' = IF raises
                               THEN [NoReport EXCEPT !.kind = "error",
                                                     !.processes = processes]
                               ELSE ReportOf(monitor.cfg, processes)
    /\ UNCHANGED <<ring_vars, attributed, name_cache, file_vars, config_vars,
                   last_config_check, process_readings,
                   process_window_start, now, running, json_files, last, used,
                   alerts, decided>>

\* no evaluation of a name yet
NoDecision == [at |-> None, version |-> 0]

\* lines 601-621: the evaluations of an iteration, each with its timestamp
\* and the config_last_modified of the configuration it was made under
Decided(it, timestamp, version) ==
    [n \in AllNames |->
        IF InSeq(n, it.completed) THEN [at |-> timestamp, version |-> version]
        ELSE decided[n]]

(***************************************************************************)
(* CPUMonitor.__init__ and the start of monitor()                          *)
(***************************************************************************)
\* When reload_config has assigned no tunable, _initialize_buffers reads
\* self.process_names, an empty slot: AttributeError leaves __init__, there
\* is no monitor and monitor() never runs.
Started_With(files) ==
    /\ config_file \in files
    /\ config_mtime = 1
    /\ \E monitor \in {Constructed(config_file, config_mtime)} :
          /\ config_last_modified = monitor.last_modified
          /\ process_names = monitor.cfg.process_names
          /\ cpu_threshold = monitor.cfg.cpu_threshold
          /\ check_interval = monitor.cfg.check_interval
          /\ monitoring_window = monitor.cfg.monitoring_window
          /\ percentage = monitor.cfg.percentage
          /\ max_readings = monitor.cfg.max_readings
          /\ process_readings =
                IF monitor.cfg = Unset THEN [n \in AllNames |-> NoBuffer]
                ELSE initialize_buffers(monitor.cfg, [n \in AllNames |-> NoBuffer])
          /\ running = (monitor.cfg # Unset)
    /\ process_window_start = [n \in AllNames |-> None]
    /\ last_config_check = StartTime
    /\ now = StartTime
    /\ json_files = << >>
    /\ last = NoTick
    /\ report = NoReport
    /\ used = [n \in AllNames |-> {}]
    /\ alerts = [n \in AllNames |-> 0]
    /\ decided = [n \in AllNames |-> NoDecision]
    /\ devs = 0
    /\ ring = CircularBuffer(RingCapacity)
    /\ ring_log = << >>
    /\ ring_time = 0
    /\ ring_clears = 0
    /\ name_cache = EmptyCache
    /\ attributed = NotAttributed

\* a monitor started with a file of the default names
Init == Started_With(StartFiles)

\* a monitor started with a file that lists a name of its own
InitListing == Started_With(ListingFiles)

(***************************************************************************)
(* monitor(): one iteration of the while loop per step.                    *)
(***************************************************************************)
\* lines 552-557 and 704-706: reload_config raises, the handler logs and
\* sleeps
TickReloadFails(delay) ==
    /\ CanTick
    /\ devs + ReloadCost(delay) <= MaxDeviations
    /\ devs' = devs + ReloadCost(delay)
    /\ \E check \in {ReloadCheck} :
          /\ check.raised
          /\ Configure(check)
          /\ Sleep(check.cfg.check_interval, delay)
    /\ last' = [NoTick EXCEPT !.kind = "error", !.timestamp = now,
                              !.window_start = process_window_start]
    /\ UNCHANGED <<ring_vars, attributed, file_vars, process_readings,
                   process_window_start, running,
                   json_files, report, used, alerts, decided>>

\* lines 552-564: no monitored process is active (or both ps calls failed)
TickIdle(delay) ==
    /\ CanTick
    /\ devs + IdleCost(delay) <= MaxDeviations
    /\ devs' = devs + IdleCost(delay)
    /\ \E check \in {ReloadCheck} :
          /\ ~check.raised
          /\ Configure(check)
          /\ process_readings' = check.readings
          /\ Sleep(check.cfg.check_interval, delay)
          /\ last' = [NoTick EXCEPT !.kind = "idle", !.timestamp = now,
                                    !.reloaded = check.reloaded,
                                    !.window_start = process_window_start]
    /\ UNCHANGED <<ring_vars, attributed, file_vars, process_window_start,
                   running, json_files,
                   report, used, alerts, decided>>

\* the ways the census can fail: both ps calls fail and lines 309-311
\* return the empty dictionary, or subprocess.run raises an exception the
\* handler of line 278 does not name (ps cannot be started) and the handler
\* of lines 704-706 logs it
SourceFailures == {"failed", "raised"}

\* lines 552-564 and 704-706: the sample source fails in the iteration
TickSourceFails(how, delay) ==
    /\ CanTick
    /\ devs + IdleCost(delay) <= MaxDeviations
    /\ devs' = devs + IdleCost(delay)
    /\ \E check \in {ReloadCheck} :
          /\ ~check.raised
          /\ Configure(check)
          /\ process_readings' = check.readings
          /\ Sleep(check.cfg.check_interval, delay)
          /\ last' = [NoTick EXCEPT !.kind = IF how = "raised" THEN "error" ELSE "idle",
                                    !.source = how,
                                    !.timestamp = now,
                                    !.reloaded = check.reloaded,
                                    !.window_start = process_window_start]
    /\ UNCHANGED <<ring_vars, attributed, file_vars, process_window_start,
                   running, json_files,
                   report, used, alerts, decided>>

\* mutant: the reset moves window_start and leaves the buffer as it is
ResetBuffer_Keeps(buffer) == buffer

\* lines 667-681: the window of a completed process is reset
ResetBuffer(buffer) == clear(buffer)
ResetStart(window_start, timestamp) == timestamp

\* lines 552-699: an iteration that runs to its end, and how long it took
TickRun ==
    /\ CanTick
    /\ \E check \in {ReloadCheck} :
       \E processes \in Census(check.cfg.process_names) \ {EmptyCensus} :
          /\ ~check.raised
          /\ devs + Cost(processes, check.cfg.process_names, 0, FALSE) <= MaxDeviations
          /\ Configure(check)
          /\ \E delay \in Delays :
                /\ devs + Cost(processes, check.cfg.process_names, delay, FALSE) <= MaxDeviations
                /\ devs' = devs + Cost(processes, check.cfg.process_names, delay, FALSE)
                /\ Sleep(check.cfg.check_interval, delay)
          /\ \E timestamp \in {now} :
             \E it \in {Iteration(check.cfg, check.readings, processes, timestamp)} :
                /\ process_readings' =
                      [n \in AllNames |->
                          IF InSeq(n, it.completed) THEN ResetBuffer(it.readings[n])
                          ELSE it.readings[n]]
                /\ process_window_start' =
                      [n \in AllNames |->
                          IF InSeq(n, it.completed)
                          THEN ResetStart(it.starts[n], timestamp)
                          ELSE it.starts[n]]
                /\ json_files' =
                      IF it.triggering # << >>
                      THEN Append(json_files,
                                  JsonRecord(check.cfg, processes, it, timestamp))
                      ELSE json_files
                /\ last' = [Observed("run", processes, it, timestamp,
                                     IF it.triggering # << >>
                                     THEN {"json", "report", "full"} ELSE {},
                                     Range(it.completed))
                               EXCEPT !.reloaded = check.reloaded]
                /\ used' = [n \in AllNames |-> used[n] \cup it.stamps[n]]
                /\ alerts' = [n \in AllNames |->
                                IF InSeq(n, it.completed) THEN 0 ELSE alerts[n]]
                /\ decided' = Decided(it, timestamp, check.last_modified)
    /\ UNCHANGED <<ring_vars, attributed, file_vars, running, report>>

\* the files an alert has written when the write of file failAt raises
WrittenBefore(failAt) ==
    CASE failAt = "json"   -> {}
      [] failAt = "report" -> {"json"}
      [] failAt = "full"   -> {"json", "report"}

\* lines 552-662 and 704-706: save_cpu_data_minimal, create_minimal_report
\* or create_full_report raises, the handler logs and sleeps
TickEvidenceFails ==
    /\ CanTick
    /\ \E check \in {ReloadCheck} :
       \E processes \in Census(check.cfg.process_names) \ {EmptyCensus} :
          /\ ~check.raised
          /\ devs + Cost(processes, check.cfg.process_names, 0, TRUE) <= MaxDeviations
          /\ Configure(check)
          /\ \E delay \in Delays :
                /\ devs + Cost(processes, check.cfg.process_names, delay, TRUE) <= MaxDeviations
                /\ devs' = devs + Cost(processes, check.cfg.process_names, delay, TRUE)
                /\ Sleep(check.cfg.check_interval, delay)
          /\ \E timestamp \in {now} :
             \E it \in {Iteration(check.cfg, check.readings, processes, timestamp)} :
                /\ it.triggering # << >>
                /\ process_readings' = it.readings
                /\ process_window_start' = it.starts
                /\ \E obs \in {Observed("error", processes, it, timestamp, {}, {})},
                      record \in {JsonRecord(check.cfg, processes, it, timestamp)} :
                   \E failAt \in {"json", "report", "full"} :
                      /\ json_files' =
                            IF "json" \in WrittenBefore(failAt)
                            THEN Append(json_files, record)
                            ELSE json_files
                      /\ last' = [obs EXCEPT !.written = WrittenBefore(failAt),
                                             !.reloaded = check.reloaded]
                /\ used' = [n \in AllNames |-> used[n] \cup it.stamps[n]]
                /\ alerts' = [n \in AllNames |->
                                IF InSeq(n, it.triggering) THEN alerts[n] + 1
                                ELSE alerts[n]]
                /\ decided' = Decided(it, timestamp, check.last_modified)
    /\ UNCHANGED <<ring_vars, attributed, file_vars, running, report>>

\* lines 563, 699 and 701-703: Ctrl+C arrives while the loop sleeps between
\* two iterations, and the loop is left
KeyboardInterruptInSleep ==
    /\ running
    /\ last.kind # "start"
    /\ devs < MaxDeviations
    /\ devs' = devs + 1
    /\ running' = FALSE
    /\ UNCHANGED <<ring_vars, attributed, name_cache, file_vars, config_vars,
                   last_config_check, process_readings,
                   process_window_start, now, json_files, last, report, used,
                   alerts, decided>>

\* lines 552-662 and 701-703: Ctrl+C arrives while an iteration writes the
\* evidence of an alert (before the file stopAt is written); the exception
\* leaves the try block at once and the loop is left
TickInterrupted ==
    /\ CanTick
    /\ \E check \in {ReloadCheck} :
       \E processes \in Census(check.cfg.process_names) \ {EmptyCensus} :
          /\ ~check.raised
          /\ devs + Cost(processes, check.cfg.process_names, 0, TRUE) <= MaxDeviations
          /\ devs' = devs + Cost(processes, check.cfg.process_names, 0, TRUE)
          /\ Configure(check)
          /\ \E timestamp \in {now} :
             \E it \in {Iteration(check.cfg, check.readings, processes, timestamp)} :
                /\ it.triggering # << >>
                /\ process_readings' = it.readings
                /\ process_window_start' = it.starts
                /\ \E obs \in {Observed("stop", processes, it, timestamp, {}, {})},
                      record \in {JsonRecord(check.cfg, processes, it, timestamp)} :
                   \E stopAt \in {"json", "report", "full"} :
                      /\ json_files' =
                            IF "json" \in WrittenBefore(stopAt)
                            THEN Append(json_files, record)
                            ELSE json_files
                      /\ last' = [obs EXCEPT !.written = WrittenBefore(stopAt),
                                             !.reloaded = check.reloaded]
                /\ used' = [n \in AllNames |-> used[n] \cup it.stamps[n]]
                /\ alerts' = [n \in AllNames |->
                                IF InSeq(n, it.triggering) THEN alerts[n] + 1
                                ELSE alerts[n]]
                /\ decided' = Decided(it, timestamp, check.last_modified)
    /\ running' = FALSE
    /\ UNCHANGED <<ring_vars, attributed, file_vars, now, report>>

\* lines 552-699 and 704-706 with a negative check_interval: the iteration
\* runs to the time.sleep of line 563 (empty census) or 699, which raises
\* ValueError; the handler of line 704 logs it and its own time.sleep of
\* line 706 raises again, outside every try block: monitor() is left
TickSleepFails ==
    /\ CanTick
    /\ \E check \in {ReloadCheck} :
       \E processes \in Census(check.cfg.process_names) :
          /\ ~check.raised
          /\ check.cfg.check_interval < 0
          /\ devs + Cost(processes, check.cfg.process_names, 0, FALSE) <= MaxDeviations
          /\ devs' = devs + Cost(processes, check.cfg.process_names, 0, FALSE)
          /\ Configure(check)
          /\ \E timestamp \in {now} :
             \E it \in {Iteration(check.cfg, check.readings, processes, timestamp)} :
                IF processes = EmptyCensus
                THEN /\ process_readings' = check.readings
                     /\ last' = [NoTick EXCEPT !.kind = "crash", !.timestamp = now,
                                               !.reloaded = check.reloaded,
                                               !.window_start = process_window_start]
                     /\ UNCHANGED <<process_window_start, json_files, used,
                                    alerts, decided>>
                ELSE /\ process_readings' =
                           [n \in AllNames |->
                               IF InSeq(n, it.completed) THEN ResetBuffer(it.readings[n])
                               ELSE it.readings[n]]
                     /\ process_window_start' =
                           [n \in AllNames |->
                               IF InSeq(n, it.completed)
                               THEN ResetStart(it.starts[n], timestamp)
                               ELSE it.starts[n]]
                     /\ json_files' =
                           IF it.triggering # << >>
                           THEN Append(json_files,
                                       JsonRecord(check.cfg, processes, it, timestamp))
                           ELSE json_files
                     /\ last' = [Observed("crash", processes, it, timestamp,
                                          IF it.triggering # << >>
                                          THEN {"json", "report", "full"} ELSE {},
                                          Range(it.completed))
                                    EXCEPT !.reloaded = check.reloaded]
                     /\ used' = [n \in AllNames |-> used[n] \cup it.stamps[n]]
                     /\ alerts' = [n \in AllNames |->
                                     IF InSeq(n, it.completed) THEN 0 ELSE alerts[n]]
                     /\ decided' = Decided(it, timestamp, check.last_modified)
    /\ running' = FALSE
    /\ UNCHANGED <<ring_vars, attributed, file_vars, now, report>>

Next ==
    \/ \E file \in EditedFiles(config_file) : EditConfig(file)
    \/ \E raises \in BOOLEAN : GenerateFullReportNow(raises)
    \/ \E delay \in Delays : TickReloadFails(delay)
    \/ \E delay \in Delays : TickIdle(delay)
    \/ \E how \in SourceFailures, delay \in Delays : TickSourceFails(how, delay)
    \/ TickRun
    \/ TickEvidenceFails
    \/ KeyboardInterruptInSleep
    \/ TickInterrupted
    \/ TickSleepFails

Spec == Init /\ [][Next]_vars

SpecListing == InitListing /\ [][Next]_vars

(***************************************************************************)
(* The configuration and the attribution exercised on their own: the file  *)
(* is rewritten by update_config.py or by hand, the monitor reloads it, and *)
(* lines of ps output are attributed by the primary and by the fallback    *)
(* census.                                                                 *)
(***************************************************************************)
\* a monitor started with a file that is there
InitConfig == Started_With(PresentFiles)

\* everything but the file, the tunables, the buffers, the cache and the
\* attribution
loop_vars == <<last_config_check, process_window_start, now, running,
               json_files, last, report, used, alerts, decided, devs>>

\* update_config.py add-process
AddProcess(name) ==
    /\ config_mtime <= MaxEdits
    /\ ~InSeq(name, config_file.process_names)
    /\ config_file' = [config_file EXCEPT !.process_names = add_process(@, name)]
    /\ config_mtime' = config_mtime + 1
    /\ UNCHANGED <<ring_vars, config_vars, loop_vars, process_readings,
                   name_cache, attributed>>

\* update_config.py remove-process
RemoveProcess(name) ==
    /\ config_mtime <= MaxEdits
    /\ InSeq(name, config_file.process_names)
    /\ config_file' = [config_file EXCEPT !.process_names = remove_process(@, name)]
    /\ config_mtime' = config_mtime + 1
    /\ UNCHANGED <<ring_vars, config_vars, loop_vars, process_readings,
                   name_cache, attributed>>

\* "cpu_threshold" is given a value that is not a number
BreakThreshold ==
    /\ config_mtime <= MaxEdits
    /\ ~config_file.bad_threshold
    /\ config_file' = [config_file EXCEPT !.bad_threshold = TRUE]
    /\ config_mtime' = config_mtime + 1
    /\ UNCHANGED <<ring_vars, config_vars, loop_vars, process_readings,
                   name_cache, attributed>>

\* lines 555-556: reload_config and, when it returns True,
\* _initialize_buffers
ReloadNow ==
    /\ \E r \in {reload_config(Tunables, config_file, config_mtime,
                                config_last_modified)} :
          /\ r.returns # "False"
          /\ config_last_modified' = r.last_modified
          /\ process_names' = r.cfg.process_names
          /\ cpu_threshold' = r.cfg.cpu_threshold
          /\ check_interval' = r.cfg.check_interval
          /\ monitoring_window' = r.cfg.monitoring_window
          /\ percentage' = r.cfg.percentage
          /\ max_readings' = r.cfg.max_readings
          /\ name_cache' = IF r.returns = "True" THEN EmptyCache ELSE name_cache
          /\ process_readings' = IF r.returns = "True"
                                 THEN initialize_buffers(r.cfg, process_readings)
                                 ELSE process_readings
    /\ UNCHANGED <<ring_vars, file_vars, loop_vars, attributed>>

\* lines 238-271: a line of the output of ps -A is attributed
CensusPrimary(command) ==
    /\ attributed' = [path |-> "primary", command |-> command,
                      names |-> process_names,
                      name |-> PrimaryMatch(process_names, command)]
    /\ UNCHANGED <<ring_vars, file_vars, config_vars, loop_vars,
                   process_readings, name_cache>>

\* lines 289-305: a line of the output of ps aux is attributed
CensusFallback(command) ==
    /\ \E m \in {match_process_name(name_cache, process_names, command)} :
          /\ attributed' = [path |-> "fallback", command |-> command,
                            names |-> process_names,
                            name |-> m.name]
          /\ name_cache' = m.cache
    /\ UNCHANGED <<ring_vars, file_vars, config_vars, loop_vars,
                   process_readings>>

NextConfig ==
    \/ \E name \in AllNames : AddProcess(name)
    \/ \E name \in AllNames : RemoveProcess(name)
    \/ BreakThreshold
    \/ ReloadNow
    \/ \E command \in Commands : CensusPrimary(command)
    \/ \E command \in Commands : CensusFallback(command)

SpecConfig == InitConfig /\ [][NextConfig]_vars

(***************************************************************************)
(* A CircularBuffer exercised on its own: any sequence of appends, with     *)
(* timestamps that grow, and of clears.                                    *)
(***************************************************************************)
RingAppend(cpu) ==
    /\ Len(ring_log) < MaxAppends
    /\ ring_time' = ring_time + 1
    /\ ring' = append(ring, ring_time + 1, cpu, 1)
    /\ ring_log' = Append(ring_log, [timestamp |-> ring_time + 1, cpu |-> cpu])
    /\ UNCHANGED <<monitor_vars, ring_clears>>

RingClear ==
    /\ ring_clears < MaxClears
    /\ ring_clears' = ring_clears + 1
    /\ ring' = clear(ring)
    /\ ring_log' = << >>
    /\ UNCHANGED <<monitor_vars, ring_time>>

NextBuffer ==
    \/ \E cpu \in RingValues : RingAppend(cpu)
    \/ RingClear

SpecBuffer == Init /\ [][NextBuffer]_vars

(***************************************************************************)
(* The properties.  last describes the iteration that led to the state:    *)
(* the state is the end of that iteration and the start of the next one.   *)
(***************************************************************************)
\* the reading a stored single came from
Reading(val) == CHOOSE k \in CpuValues : Float32(k) = val

\* C1: a name is put into triggering_processes (and evidence is written)
\* only in an iteration in which its window has lasted monitoring_window
\* seconds and the values evaluated are at least MinSamples
C1_AlertOnlyOnCompleteWindow ==
    /\ \A n \in AllNames :
          InSeq(n, last.triggering) =>
             /\ last.window_start[n] # None
             /\ last.timestamp - last.window_start[n] >= monitoring_window
             /\ Len(last.values[n]) >= MinSamples
    /\ last.written # {} => last.triggering # << >>
    /\ \A i \in DOMAIN json_files :
          \A k \in DOMAIN json_files[i].alert :
             json_files[i].alert[k] \in DOMAIN json_files[i].medians

C1_Witness ==
    \E n \in AllNames :
       /\ InSeq(n, last.triggering)
       /\ "json" \in last.written

\* C2: at the end of an iteration in which the window of a name completed
\* the buffer of the name is empty and its window_start is the timestamp of
\* the iteration
C2_CompletedWindowIsReset ==
    \A n \in AllNames :
       InSeq(n, last.completed) =>
          /\ BufLen(process_readings[n]) = 0
          /\ process_window_start[n] = last.timestamp

\* C3: no sample is looked at by two evaluations of its name and no second
\* alert is raised for a window
C3_NoSampleUsedTwice ==
    \A n \in AllNames :
       /\ last.reused[n] = {}
       /\ last.alert_no[n] <= 1

\* C4: when writing the evidence raises, the windows that completed in the
\* iteration are reset all the same
C4_ResetDespiteFailedEvidence ==
    (last.kind = "error" /\ last.triggering # << >>) =>
       \A n \in Range(last.completed) :
          /\ BufLen(process_readings[n]) = 0
          /\ process_window_start[n] = last.timestamp

\* C5: a window that has lasted monitoring_window seconds but whose
\* evaluated values are fewer than MinSamples is reported as 0.0 and does
\* not trigger, whatever the required percentage
C5_InsufficientDataNeverTriggers ==
    \A n \in AllNames :
       (InSeq(n, last.completed) /\ Len(last.values[n]) < MinSamples) =>
          /\ last.percentiles[n] = <<0, 1>>
          /\ ~InSeq(n, last.triggering)
          /\ \A i \in DOMAIN json_files :
                (json_files[i].ts = last.timestamp /\ "json" \in last.written)
                   => json_files[i].medians[n] = 0

C5_Witness ==
    \E n \in AllNames :
       /\ InSeq(n, last.completed)
       /\ Len(last.values[n]) < MinSamples
       /\ percentage = 0

C7_WholeWindowEvaluated ==
    \A n \in AllNames :
       InSeq(n, last.completed) => last.stamps[n] = last.held[n]

\* C8: the statistic of an evaluated window is 100 * count(v > cpu_threshold)
\* / count(v) over the readings evaluated, a reading equal to the threshold
\* not counting
C8_PercentAboveIsStrict ==
    \A n \in AllNames :
       (InSeq(n, last.completed) /\ Len(last.values[n]) >= MinSamples) =>
          last.percentiles[n] =
             <<100 * Cardinality({i \in DOMAIN last.values[n] :
                                     Reading(last.values[n][i]) > cpu_threshold}),
               Len(last.values[n])>>

\* C9: a completed window with enough values triggers exactly when its
\* statistic is at least the required percentage, and a name of the
\* on-demand report exactly when its statistic is at least cpu_threshold
C9_TriggersIffStatisticReaches ==
    /\ \A n \in AllNames :
          (InSeq(n, last.completed) /\ Len(last.values[n]) >= MinSamples) =>
             (InSeq(n, last.triggering) <=>
                 last.percentiles[n][1] >= percentage * last.percentiles[n][2])
    /\ report.kind = "done" =>
          \A n \in Range(process_names) :
             InSeq(n, report.triggering) <=>
                report.medians[n] >= 100 * report.threshold

C9_Witness ==
    /\ \E n \in AllNames :
          /\ InSeq(n, last.triggering)
          /\ last.percentiles[n][1] = percentage * last.percentiles[n][2]
    /\ \E n \in AllNames :
          /\ InSeq(n, report.triggering)
          /\ report.medians[n] = 100 * report.threshold

\* C10: every sample a buffer holds is not older than the window_start of
\* its name, and the samples of a buffer are in the order of their
\* timestamps
C10_SamplesWithinWindow ==
    \A n \in AllNames :
       (process_readings[n] # NoBuffer /\ process_window_start[n] # None) =>
          LET held == HeldStamps(process_readings[n])
          IN  /\ \A i \in DOMAIN held : held[i] >= process_window_start[n]
              /\ \A i, j \in DOMAIN held : i <= j => held[i] <= held[j]

C10_Witness ==
    \E n \in AllNames :
       /\ process_readings[n] # NoBuffer
       /\ BufLen(process_readings[n]) > 0
       /\ process_window_start[n] > StartTime
       /\ alerts[n] = 0 /\ used[n] # {}

\* C11: an iteration in which the sample source fails appends nothing to any
\* buffer and moves no window_start, leaves the loop running, and the next
\* iteration starts check_interval seconds (and the time the iteration itself
\* took) later
C11_SourceFailureSkipsTick ==
    [][(now' # now /\ last'.source \in SourceFailures) =>
          /\ \A n \in AllNames :
                /\ process_readings'[n] = process_readings[n]
                /\ process_window_start'[n] = process_window_start[n]
          /\ json_files' = json_files
          /\ running'
          /\ \E delay \in Delays : now' = last'.timestamp + check_interval' + delay
          /\ last'.timestamp = now]_vars

C11_Witness ==
    /\ last.source \in SourceFailures
    /\ running
    /\ \E n \in Range(process_names) : BufLen(process_readings[n]) > 0

\* C12: in every iteration that raises nothing, the census empty or not, each
\* configured name whose window_start is set and whose window has lasted
\* monitoring_window seconds is evaluated and its window is reset
C12_ElapsedWindowEvaluatedOnEveryTick ==
    (last.kind \in {"idle", "run"} /\ last.source = "ok") =>
       \A n \in Range(process_names) :
          (/\ last.window_start[n] # None
           /\ last.timestamp - last.window_start[n] >= monitoring_window) =>
             /\ InSeq(n, last.completed)
             /\ n \in last.reset

\* C13: while the configuration stays the same, a name whose window was
\* evaluated at T is not evaluated again before T + monitoring_window, and
\* no window raises a second alert
C13_DecisionsAWindowApart ==
    [][now' # now =>
          \A n \in AllNames :
             (/\ InSeq(n, last'.completed)
              /\ decided[n].at # None
              /\ decided[n].version = config_last_modified') =>
                /\ last'.timestamp - decided[n].at >= monitoring_window'
                /\ last'.alert_no[n] <= 1]_vars

\* the timestamps a buffer of process_readings holds, as a set
Held(buffer) == IF buffer = NoBuffer THEN {} ELSE Range(HeldStamps(buffer))

\* C14: an iteration in which reload_config returns True leaves, for every
\* name configured before and after it, the buffer and the window_start as
\* they were: an iteration that stops before the appends leaves them
\* unchanged, and one that appends holds the samples held before and the new
\* one, under the window_start of before
C14_ReloadKeepsWindows ==
    [][(now' # now /\ last'.reloaded) =>
          \A n \in Range(process_names) \cap Range(process_names') :
             /\ ~last'.evaluated =>
                   /\ process_readings'[n] = process_readings[n]
                   /\ process_window_start'[n] = process_window_start[n]
             /\ last'.evaluated =>
                   /\ last'.held[n] =
                         Held(process_readings[n]) \cup
                         (IF last'.processes[n] # << >> THEN {last'.timestamp} ELSE {})
                   /\ last'.window_start[n] =
                         IF process_window_start[n] = None /\ last'.processes[n] # << >>
                         THEN last'.timestamp ELSE process_window_start[n]]_vars

C14_Witness ==
    /\ last.reloaded
    /\ Range(process_names) # Range(MergedNames(<<"nginx">>))
    /\ \E n \in Range(process_names) :
          /\ BufLen(process_readings[n]) > 1
          /\ process_window_start[n] < last.timestamp

Malformed(file) == ~file.json \/ file.bad_threshold \/ file.check_interval = 0

\* C16: an iteration whose reload check finds a malformed file leaves every
\* tunable as it was and the loop running
C16_MalformedReloadIsSkipped ==
    [][(/\ now' # now
        /\ now - last_config_check >= ConfigInterval
        /\ config_mtime > config_last_modified
        /\ Malformed(config_file)) =>
          /\ Tunables' = Tunables
          /\ running']_vars

\* C17: when Ctrl+C has stopped the loop, the last iteration is complete:
\* every window that completed in it is reset, and the evidence of its alert
\* is written in full
C17_StopCompletesTick ==
    (~running /\ last.kind # "error" /\ last.evaluated) =>
       /\ \A n \in Range(last.completed) :
             /\ BufLen(process_readings[n]) = 0
             /\ process_window_start[n] = last.timestamp
       /\ last.triggering # << >> => last.written = {"json", "report", "full"}

\* C18: every cpu_data record holds the timestamp, the triggering names, the
\* statistic of each, the threshold, the window duration and, under a key of
\* its own, the values evaluated for each triggering name
C18_RecordHoldsRawSamples ==
    \A i \in DOMAIN json_files :
       /\ {"ts", "alert", "medians", "threshold", "window"} \subseteq DOMAIN json_files[i]
       /\ "values" \in DOMAIN json_files[i]
       /\ \A n \in Range(json_files[i].alert) : n \in DOMAIN json_files[i].values

\* the appends to ring since it was made or cleared that a buffer of its
\* capacity still holds, oldest first
RingKept ==
    LET n == Len(ring_log)
        k == IF n < ring.size THEN n ELSE ring.size
    IN  SubSeq(ring_log, n - k + 1, n)

Reverse(s) == [i \in 1..Len(s) |-> s[Len(s) + 1 - i]]

\* C19: the length of a buffer is the number of appends since it was made or
\* cleared, at most its capacity, and get_values() is the readings of the
\* last that many appends, oldest first
C19_ValuesAreTheLastAppends ==
    /\ BufLen(ring) = Len(RingKept)
    /\ BufLen(ring) <= ring.size
    /\ Len(get_values(ring)) = Len(RingKept)
    /\ \A i \in DOMAIN RingKept :
          10 * get_values(ring)[i] = RingKept[i].cpu * F32Unit

\* C20: once a buffer has been cleared, its length, get_values() and
\* get_recent_values() of any window tell of the appends since the clear
\* only (of none right after the clear), as the singles they are stored as
C20_NothingSurvivesClear ==
    ring_clears > 0 =>
       /\ BufLen(ring) = Len(RingKept)
       /\ get_values(ring) = [i \in DOMAIN RingKept |-> Float32(RingKept[i].cpu)]
       /\ \A window_seconds \in 0..(2 * MaxAppends) :
             LET recent == SelectSeq(RingKept,
                              LAMBDA e : e.timestamp >= ring_time - window_seconds)
             IN  get_recent_values(ring, window_seconds, ring_time) =
                    Reverse([i \in DOMAIN recent |-> Float32(recent[i].cpu)])

\* a cleared buffer that holds fewer appends than its capacity while a slot
\* it does not count still holds a sample of before the clear
C20_Witness ==
    /\ ring_clears > 0
    /\ Len(ring_log) > 0
    /\ BufLen(ring) < ring.size
    /\ ring.timestamps[ring.size] # None
    /\ ring.timestamps[ring.size] >= ring_time - 2 * MaxAppends

\* C21: in every state, the capacity of the buffer of every configured name
\* is ceil(monitoring_window / check_interval) + 5 for the tunables in
\* force, also when the window is no multiple of the interval and after a
\* reload that changed one of the two.
C21_CapacityFollowsConfiguration ==
    \A n \in Range(process_names) :
       (process_readings[n] # NoBuffer /\ check_interval > 0) =>
          process_readings[n].size =
             ((monitoring_window + check_interval - 1) \div check_interval) + 5

\* C22: the window start of a name changes only in an iteration that sees
\* the name for the first time (from None to the timestamp of the iteration)
\* or in which the window of that name has elapsed (to the timestamp of the
\* iteration); no other step changes it: the window does not slide.
C22_WindowStartNeverSlides ==
    [][\A n \in AllNames :
          process_window_start'[n] # process_window_start[n] =>
             /\ last'.timestamp = now
             /\ process_window_start'[n] = now
             /\ \/ /\ process_window_start[n] = None
                   /\ last'.processes[n] # << >>
                \/ /\ process_window_start[n] # None
                   /\ now - process_window_start[n] >= monitoring_window'
                   /\ InSeq(n, last'.completed)]_vars

\* an iteration that raised an alert for one name and reset it, and appended
\* a sample to another name whose window started earlier and goes on
C22_Witness ==
    /\ last.kind = "run"
    /\ last.triggering # << >>
    /\ \E n \in AllNames, m \in last.reset :
          /\ n \notin last.reset
          /\ last.processes[n] # << >>
          /\ process_window_start[n] # None
          /\ process_window_start[n] < last.timestamp
          /\ process_window_start[m] = last.timestamp

\* C23: no step takes the buffer or the window start of a name away, and an
\* iteration whose census holds no instance of a name whose window has not
\* elapsed leaves the buffer and the window start of that name as they
\* were, whatever happens to the other names in it.
C23_AbsentNameKeepsItsWindow ==
    [][\A n \in AllNames :
          /\ process_readings[n] # NoBuffer => process_readings'[n] # NoBuffer
          /\ process_window_start[n] # None => process_window_start'[n] # None
          /\ ( /\ last' # last
               /\ last'.timestamp = now
               /\ last'.processes[n] = << >>
               /\ process_readings[n] # NoBuffer
               /\ ~ ( /\ process_window_start[n] # None
                      /\ now - process_window_start[n] >= monitoring_window') )
             => /\ process_readings'[n] = process_readings[n]
                /\ process_window_start'[n] = process_window_start[n]]_vars

\* an iteration without an instance of a name that holds samples of a window
\* still open, in which another name raised an alert and was reset
C23_Witness ==
    /\ last.kind = "run"
    /\ last.triggering # << >>
    /\ last.reset # {}
    /\ \E n \in Range(process_names) \ last.reset :
          /\ last.processes[n] = << >>
          /\ BufLen(process_readings[n]) > 0
          /\ process_window_start[n] # None
          /\ last.timestamp - process_window_start[n] < monitoring_window

\* C24: an iteration with timestamp T that holds the first instance ever
\* seen of a name sets the window start of the name to T (not to None and
\* not to the time the monitor started at), and the sample it appends lies
\* in that window.
C24_WindowStartsAtFirstObservation ==
    [][\A n \in AllNames :
          ( /\ last' # last
            /\ last'.timestamp = now
            /\ last'.processes[n] # << >>
            /\ process_window_start[n] = None )
          => /\ last'.window_start[n] = now
             /\ process_window_start'[n] = now
             /\ now # None
             /\ now \in last'.held[n]
             /\ \A t \in last'.held[n] :
                   process_window_start'[n] <= t /\ t <= now]_vars

\* a name first seen in an iteration that is not the first one
C24_Witness ==
    /\ last.evaluated
    /\ last.timestamp > StartTime
    /\ \E n \in Range(process_names) :
          /\ last.processes[n] # << >>
          /\ last.held[n] = {last.timestamp}
          /\ last.window_start[n] = last.timestamp
          /\ process_window_start[n] = last.timestamp
          /\ BufLen(process_readings[n]) = 1

\* C25: an iteration that calls reload_config gets True, with the
\* configuration of the file applied, exactly when the modification time of
\* the file is greater than the one last applied; otherwise the call
\* changes no tunable, no buffer and no window start.
C25_ReloadIffFileIsNewer ==
    [][( /\ last' # last
         /\ last'.timestamp = now
         /\ now - last_config_check >= ConfigInterval )
       => /\ last'.reloaded <=> config_mtime > config_last_modified
          /\ ~last'.reloaded =>
                /\ Tunables' = Tunables
                /\ ~last'.evaluated =>
                      /\ process_readings' = process_readings
                      /\ process_window_start' = process_window_start]_vars

\* C26: an iteration that raised an error is followed by a sleep of
\* check_interval with the loop still running, and the loop is left only by
\* a KeyboardInterrupt: in its sleep, or in an iteration it stops.
C26_OnlyStopSignalEndsLoop ==
    [][/\ (last' # last /\ last'.kind = "error") =>
             running' /\ now' >= now + check_interval'
       /\ (running /\ ~running') => (last' = last \/ last'.kind = "stop")]_vars

\* C27: a monitor started without a configuration file is constructed, with
\* the tunables of the default configuration, and its loop can run.
C27_MissingFileGivesDefaults ==
    (last.kind = "start" /\ ~config_file.exists) =>
       /\ running
       /\ process_names = default_config.process_names
       /\ cpu_threshold = default_config.cpu_threshold
       /\ check_interval = default_config.check_interval
       /\ monitoring_window = default_config.monitoring_window
       /\ percentage = default_config.percentage

\* C28: an iteration appends to the buffer of every name with an instance in
\* its census exactly one sample: the timestamp of the iteration, the
\* greatest cpu of the instances of the name (stored as the single nearest
\* to it) and the pid of an instance with that cpu; the buffer of a name
\* without an instance gets no sample.  A buffer that is reset in the
\* iteration is emptied after the append.
C28_OneSamplePerObservedName ==
    [][(last' # last /\ last'.timestamp = now) =>
          \A n \in AllNames :
             LET inst   == last'.processes[n]
                 before == IF process_readings[n] = NoBuffer
                           THEN CircularBuffer(max_readings')
                           ELSE process_readings[n]
                 after  == process_readings'[n]
             IN  IF inst = << >>
                 THEN \/ after = process_readings[n]
                      \/ after = before
                      \/ n \in last'.reset /\ after = clear(before)
                 ELSE \E i \in DOMAIN inst :
                         /\ \A j \in DOMAIN inst : inst[j].cpu <= inst[i].cpu
                         /\ after = IF n \in last'.reset
                                    THEN clear(append(before, now, inst[i].cpu,
                                                      inst[i].pid))
                                    ELSE append(before, now, inst[i].cpu,
                                                inst[i].pid)]_vars

\* an iteration whose census holds two instances of a name, the second one
\* the busiest, and no instance of another name that holds samples
C28_Witness ==
    /\ last.evaluated
    /\ \E n \in Range(process_names) \ last.reset :
          /\ Len(last.processes[n]) = 2
          /\ last.processes[n][1].cpu < last.processes[n][2].cpu
          /\ process_readings[n].pos > 0
          /\ process_readings[n].pids[process_readings[n].pos] = last.processes[n][2].pid
          /\ process_readings[n].buffer[process_readings[n].pos] =
                Float32(last.processes[n][2].cpu)
          /\ process_readings[n].timestamps[process_readings[n].pos] = last.timestamp
    /\ \E m \in Range(process_names) :
          /\ last.processes[m] = << >>
          /\ process_readings[m] # NoBuffer
          /\ BufLen(process_readings[m]) > 0

\* the first of the configured names that occurs in a command whatever the
\* case, NoName when there is none
FirstConfigured(names, command) ==
    IF \E i \in DOMAIN names : Substring(Lower(names[i]), command)
    THEN names[CHOOSE i \in DOMAIN names :
                  /\ Substring(Lower(names[i]), command)
                  /\ \A j \in 1..(i - 1) : ~Substring(Lower(names[j]), command)]
    ELSE NoName

\* C29: a line of ps output is attributed, by the primary census and by the
\* fallback census alike, to the first configured name that occurs in its
\* command whatever the case, and to no name when there is none.
C29_AttributedToFirstConfiguredName ==
    attributed.path # "none" =>
       attributed.name = FirstConfigured(attributed.names, attributed.command)

\* the names of a file in their order, then every default name that does
\* not occur among them whatever the case
WithDefaults(names) ==
    names \o SelectSeq(default_config.process_names,
                LAMBDA d : ~ \E i \in DOMAIN names : Lower(names[i]) = Lower(d))

AppliedWhole(file) ==
    LET config == load_config(file)
    IN  [process_names     |-> config.process_names,
         cpu_threshold     |-> config.cpu_threshold,
         check_interval    |-> config.check_interval,
         monitoring_window |-> config.monitoring_window,
         percentage        |-> config.percentage,
         max_readings      |-> MaxReadings(config.monitoring_window,
                                           config.check_interval)]

\* C32: reload_config is all or nothing: a step that changes a tunable or
\* advances config_last_modified leaves all six tunables as one complete
\* application of the file gives them, also when the call raises part-way.
C32_ReloadIsAllOrNothing ==
    [][(Tunables' # Tunables \/ config_last_modified' # config_last_modified) =>
          /\ ~(config_file.json /\ config_file.bad_threshold)
          /\ load_config(config_file).check_interval # 0
          /\ Tunables' = AppliedWhole(config_file)
          /\ config_last_modified' = config_mtime]_vars

\* C31: a run in which every configured name is seen in every iteration
\* with a reading above the threshold, the iterations are a check_interval
\* apart and nothing fails has raised an alert by the time the last
\* iteration of the run is over, whatever the window of the configuration.
C31_SteadyLoadRaisesAlert ==
    ( /\ running
      /\ devs = 0
      /\ now > MaxTime
      /\ Above(Float32(NominalCpu), cpu_threshold) )
    => json_files # << >>
====
